---------------------------- MODULE Spec2Model ----------------------------
(***************************************************************************)
(* Model of docs/old_2/transform_markdown.py: the two-pass line rewriter   *)
(* transform_content, the detector check_if_transformed and the batch loop *)
(* of the script.  A text is a sequence of one-character strings; a        *)
(* document is such a sequence with "\n" between its lines.                *)
(***************************************************************************)
EXTENDS Integers, Sequences, FiniteSets, TLC

(***************************************************************************)
(* Characters.  Whitespace is what str.strip() and the regex class \s      *)
(* remove or match; of the line boundaries of str.splitlines() the texts   *)
(* of this model contain only "\n".                                        *)
(***************************************************************************)
NL == "\n"
Whitespace == {" ", "\t", NL}
Digits == {"0", "1", "2", "3", "4", "5", "6", "7", "8", "9"}
Markers == {"*", "-"}
\* the grave accent (U+0060), which the lexer of this language does not take
\* inside a string: the character is written as a name
BACKTICK == "BACKTICK"

(***************************************************************************)
(* The string literals of the program.                                     *)
(***************************************************************************)
FILE_PATH_LABEL == <<"F", "i", "l", "e", " ", "P", "a", "t", "h", ":", " ">>
OVERALL_LABEL == <<"O", "v", "e", "r", "a", "l", "l", " ", "A", "s", "s", "e",
    "s", "s", "m", "e", "n", "t", ":">>
KEY_FINDINGS_LABEL == <<"K", "e", "y", " ", "F", "i", "n", "d", "i", "n", "g",
    "s", " ", "a", "n", "d", " ", "S", "u", "g", "g", "e", "s", "t", "i", "o",
    "n", "s", ":">>
ACTIONABLE_LABEL == <<"A", "c", "t", "i", "o", "n", "a", "b", "l", "e", " ",
    "R", "e", "c", "o", "m", "m", "e", "n", "d", "a", "t", "i", "o", "n", "s",
    ":">>
FILE_PATH_H2 == <<"#", "#", " ", "F", "i", "l", "e", " ", "P", "a", "t", "h",
    ":", " ", BACKTICK>>
OVERALL_H2 == <<"#", "#", " ", "O", "v", "e", "r", "a", "l", "l", " ", "A",
    "s", "s", "e", "s", "s", "m", "e", "n", "t">>
KEY_FINDINGS_H2 == <<"#", "#", " ", "K", "e", "y", " ", "F", "i", "n", "d",
    "i", "n", "g", "s", " ", "a", "n", "d", " ", "S", "u", "g", "g", "e", "s",
    "t", "i", "o", "n", "s">>
ACTIONABLE_H2 == <<"#", "#", " ", "A", "c", "t", "i", "o", "n", "a", "b", "l",
    "e", " ", "R", "e", "c", "o", "m", "m", "e", "n", "d", "a", "t", "i", "o",
    "n", "s">>
H2_PREFIX == <<"#", "#", " ">>
H3_PREFIX == <<"#", "#", "#", " ">>
LIST_PREFIX == <<"-", " ">>
FOUR_SPACES == <<" ", " ", " ", " ">>

(***************************************************************************)
(* The lines the input documents are made of: every label, a plain line,   *)
(* an empty line, bullets with 0, 1, 2 and 8 characters of indentation, a  *)
(* bullet that ends in a colon, a bullet with nothing after the marker, a  *)
(* numbered item, an H3 and an H2 line that are already in Markdown, and a *)
(* File Path line with whitespace around the label and the path.           *)
(***************************************************************************)
L_FilePath == <<"F", "i", "l", "e", " ", "P", "a", "t", "h", ":", " ", "a",
    ".", "m", "d">>
L_Overall == <<"O", "v", "e", "r", "a", "l", "l", " ", "A", "s", "s", "e", "s",
    "s", "m", "e", "n", "t", ":">>
L_KeyFindings == <<"K", "e", "y", " ", "F", "i", "n", "d", "i", "n", "g", "s",
    " ", "a", "n", "d", " ", "S", "u", "g", "g", "e", "s", "t", "i", "o", "n",
    "s", ":">>
L_Actionable == <<"A", "c", "t", "i", "o", "n", "a", "b", "l", "e", " ", "R",
    "e", "c", "o", "m", "m", "e", "n", "d", "a", "t", "i", "o", "n", "s",
    ":">>
L_Looks == <<"L", "o", "o", "k", "s", " ", "f", "i", "n", "e", ".">>
L_Empty == <<>>
L_Title == <<" ", " ", "*", " ", "T", ":">>
L_Do == <<" ", " ", "*", " ", "d", "o">>
L_Nested == <<" ", " ", " ", " ", " ", " ", " ", " ", "-", " ", "n", "e", "s",
    "t", "e", "d">>
L_First == <<" ", "1", ".", " ", "F", "i", "r", "s", "t">>
L_H3 == <<"#", "#", "#", " ", "T">>
L_Star0 == <<"*", " ", "x">>
L_Tab == <<"\t", "*", " ", "y">>
L_ActionableH2 == <<"#", "#", " ", "A", "c", "t", "i", "o", "n", "a", "b", "l",
    "e", " ", "R", "e", "c", "o", "m", "m", "e", "n", "d", "a", "t", "i", "o",
    "n", "s">>
L_NoRest == <<" ", " ", "*", " ">>
L_Padded == <<" ", "F", "i", "l", "e", " ", "P", "a", "t", "h", ":", " ", " ",
    "b", " ">>
L_Spaces == <<" ", " ">>
L_FilePathH2 == <<"#", "#", " ", "F", "i", "l", "e", " ", "P", "a", "t", "h",
    ":", " ", BACKTICK, "a", ".", "m", "d", BACKTICK>>
InputLines ==
    {L_FilePath, L_Overall, L_KeyFindings, L_Actionable, L_Looks, L_Empty,
     L_Title, L_Do, L_Nested, L_First, L_H3,
     L_Star0, L_Tab, L_ActionableH2, L_NoRest, L_Padded}

\* the lines of the documents that exercise the blank-line rules
LayoutLines == {L_Looks, L_Empty, L_Spaces}

(***************************************************************************)
(* Bounds of the model: the lines of a document and of a document of       *)
(* LayoutLines, the command-line arguments, and the reads and writes that  *)
(* fail while the script runs.                                             *)
(***************************************************************************)
MaxLines == 3
MaxLayoutLines == 5
MaxArgs == 2
MaxFaults == 1

(***************************************************************************)
(* str methods.                                                            *)
(***************************************************************************)
IsBlank(s) == \A k \in 1..Len(s) : s[k] \in Whitespace

\* the number of whitespace characters s starts with
LeadingWs(s) ==
    IF IsBlank(s) THEN Len(s)
    ELSE (CHOOSE k \in 1..Len(s) :
            s[k] \notin Whitespace /\ \A j \in 1..(k - 1) : s[j] \in Whitespace) - 1

\* the number of whitespace characters s ends with
TrailingWs(s) ==
    IF IsBlank(s) THEN Len(s)
    ELSE Len(s) - (CHOOSE k \in 1..Len(s) :
            s[k] \notin Whitespace /\ \A j \in (k + 1)..Len(s) : s[j] \in Whitespace)

\* s.strip()
Strip(s) ==
    IF IsBlank(s) THEN <<>> ELSE SubSeq(s, LeadingWs(s) + 1, Len(s) - TrailingWs(s))

\* s.startswith(p)
StartsWith(s, p) == Len(s) >= Len(p) /\ SubSeq(s, 1, Len(p)) = p

\* s[n:]
From(s, n) == SubSeq(s, n + 1, Len(s))

\* content.splitlines(): the pieces between the "\n", with no empty last
\* piece after a final "\n"
RECURSIVE SplitFrom(_, _, _)
SplitFrom(s, k, cur) ==
    IF k > Len(s) THEN (IF cur = <<>> THEN <<>> ELSE <<cur>>)
    ELSE IF s[k] = NL THEN <<cur>> \o SplitFrom(s, k + 1, <<>>)
    ELSE SplitFrom(s, k + 1, Append(cur, s[k]))

splitlines(s) == SplitFrom(s, 1, <<>>)

\* "\n\n".join(ls)
RECURSIVE join_blank_line(_)
join_blank_line(ls) ==
    IF ls = <<>> THEN <<>>
    ELSE IF Len(ls) = 1 THEN ls[1]
    ELSE ls[1] \o <<NL, NL>> \o join_blank_line(Tail(ls))

\* "\n".join(ls)
RECURSIVE join(_)
join(ls) ==
    IF ls = <<>> THEN <<>>
    ELSE IF Len(ls) = 1 THEN ls[1]
    ELSE ls[1] \o <<NL>> \o join(Tail(ls))

(***************************************************************************)
(* The regular expressions.  Each operator gives <<>> when re.match finds  *)
(* no match and the tuple of the groups when it does.                      *)
(***************************************************************************)
\* the number of whitespace characters of s from position k on
RECURSIVE WsRun(_, _)
WsRun(s, k) == IF k <= Len(s) /\ s[k] \in Whitespace THEN 1 + WsRun(s, k + 1) ELSE 0

\* the number of digits of s from position k on
RECURSIVE DigitRun(_, _)
DigitRun(s, k) == IF k <= Len(s) /\ s[k] \in Digits THEN 1 + DigitRun(s, k + 1) ELSE 0

\* match_2c with the ":" inside the group
match_2c_colon_in_group(s) ==
    LET w == WsRun(s, 2)
        r == From(s, 1 + w)
    IN  IF Len(s) >= 1 /\ s[1] = "*" /\ w >= 1 /\ s[Len(s)] = ":"
        THEN IF Len(r) >= 2 THEN <<r>>
             ELSE IF Len(r) = 1 /\ w >= 2 THEN <<<<s[w + 1], ":">>>>
             ELSE <<>>
        ELSE <<>>

\* re.match(r"^\*\s+(.+?):$", s): the lazy group ends at the last ":" that
\* ends s; when only ":" follows the whitespace, \s+ gives one character
\* back to the group
match_2c(s) ==
    LET w == WsRun(s, 2)
        r == From(s, 1 + w)
    IN  IF Len(s) >= 1 /\ s[1] = "*" /\ w >= 1 /\ s[Len(s)] = ":"
        THEN IF Len(r) >= 2 THEN <<SubSeq(r, 1, Len(r) - 1)>>
             ELSE IF Len(r) = 1 /\ w >= 2 THEN <<<<s[w + 1]>>>>
             ELSE <<>>
        ELSE <<>>

\* re.match(r"^\s{2,}\*\s+(.*)", s)
match_2d(s) ==
    LET n == LeadingWs(s)
        w == WsRun(s, n + 2)
    IN  IF n >= 2 /\ Len(s) > n /\ s[n + 1] = "*" /\ w >= 1
        THEN <<From(s, n + 1 + w)>>
        ELSE <<>>

\* re.match(r"^\d+\.\s+.*", s)
match_numbered(s) ==
    LET d == DigitRun(s, 1)
    IN  d >= 1 /\ Len(s) > d /\ s[d + 1] = "." /\ WsRun(s, d + 2) >= 1

\* re.match(r"^(\s*)(\*|-)\s+(.*)", s)
sub_item_match(s) ==
    LET n == LeadingWs(s)
        w == WsRun(s, n + 2)
    IN  IF Len(s) > n /\ s[n + 1] \in Markers /\ w >= 1
        THEN <<SubSeq(s, 1, n), <<s[n + 1]>>, From(s, n + 1 + w)>>
        ELSE <<>>

(***************************************************************************)
(* transform_content, first loop: one line of the input.  st holds the two *)
(* section flags; the result holds the line appended to temp_lines and the *)
(* flags after it.                                                         *)
(***************************************************************************)
\* line 17 without the strip of the path
path_content_unstripped(stripped_line) == From(stripped_line, Len(FILE_PATH_LABEL))

\* line 17
path_content(stripped_line) == Strip(From(stripped_line, Len(FILE_PATH_LABEL)))

\* Pass1Line with the heading of the block above left in the block of lines
\* 31-35
Pass1Line_copied_heading(line, st) ==
    LET stripped_line == Strip(line)
        match == match_2c(stripped_line)
    IN  IF StartsWith(stripped_line, FILE_PATH_LABEL)
        THEN [out |-> FILE_PATH_H2 \o path_content(stripped_line) \o <<BACKTICK>>,
              in_key_findings |-> st.in_key_findings,
              in_actionable_recommendations |-> st.in_actionable_recommendations]
        ELSE IF stripped_line = OVERALL_LABEL
        THEN [out |-> OVERALL_H2,
              in_key_findings |-> FALSE,
              in_actionable_recommendations |-> FALSE]
        ELSE IF stripped_line = KEY_FINDINGS_LABEL
        THEN [out |-> KEY_FINDINGS_H2,
              in_key_findings |-> TRUE,
              in_actionable_recommendations |-> FALSE]
        ELSE IF stripped_line = ACTIONABLE_LABEL
        THEN [out |-> KEY_FINDINGS_H2,
              in_key_findings |-> FALSE,
              in_actionable_recommendations |-> TRUE]
        ELSE IF st.in_key_findings /\ match # <<>>
        THEN [out |-> H3_PREFIX \o Strip(match[1]),
              in_key_findings |-> st.in_key_findings,
              in_actionable_recommendations |-> st.in_actionable_recommendations]
        ELSE [out |-> line,
              in_key_findings |-> st.in_key_findings,
              in_actionable_recommendations |-> st.in_actionable_recommendations]

\* Pass1Line with line 29 left out: the Key Findings label leaves
\* in_actionable_recommendations as it was
Pass1Line_keeps_other_flag(line, st) ==
    LET stripped_line == Strip(line)
        match == match_2c(stripped_line)
    IN  IF StartsWith(stripped_line, FILE_PATH_LABEL)
        THEN [out |-> FILE_PATH_H2 \o path_content(stripped_line) \o <<BACKTICK>>,
              in_key_findings |-> st.in_key_findings,
              in_actionable_recommendations |-> st.in_actionable_recommendations]
        ELSE IF stripped_line = OVERALL_LABEL
        THEN [out |-> OVERALL_H2,
              in_key_findings |-> FALSE,
              in_actionable_recommendations |-> FALSE]
        ELSE IF stripped_line = KEY_FINDINGS_LABEL
        THEN [out |-> KEY_FINDINGS_H2,
              in_key_findings |-> TRUE,
              in_actionable_recommendations |-> st.in_actionable_recommendations]
        ELSE IF stripped_line = ACTIONABLE_LABEL
        THEN [out |-> ACTIONABLE_H2,
              in_key_findings |-> FALSE,
              in_actionable_recommendations |-> TRUE]
        ELSE IF st.in_key_findings /\ match # <<>>
        THEN [out |-> H3_PREFIX \o Strip(match[1]),
              in_key_findings |-> st.in_key_findings,
              in_actionable_recommendations |-> st.in_actionable_recommendations]
        ELSE [out |-> line,
              in_key_findings |-> st.in_key_findings,
              in_actionable_recommendations |-> st.in_actionable_recommendations]

Pass1Line(line, st) ==
    LET stripped_line == Strip(line)
        match == match_2c(stripped_line)
    IN  IF StartsWith(stripped_line, FILE_PATH_LABEL)
        THEN [out |-> FILE_PATH_H2 \o path_content(stripped_line) \o <<BACKTICK>>,
              in_key_findings |-> st.in_key_findings,
              in_actionable_recommendations |-> st.in_actionable_recommendations]
        ELSE IF stripped_line = OVERALL_LABEL
        THEN [out |-> OVERALL_H2,
              in_key_findings |-> FALSE,
              in_actionable_recommendations |-> FALSE]
        ELSE IF stripped_line = KEY_FINDINGS_LABEL
        THEN [out |-> KEY_FINDINGS_H2,
              in_key_findings |-> TRUE,
              in_actionable_recommendations |-> FALSE]
        ELSE IF stripped_line = ACTIONABLE_LABEL
        THEN [out |-> ACTIONABLE_H2,
              in_key_findings |-> FALSE,
              in_actionable_recommendations |-> TRUE]
        ELSE IF st.in_key_findings /\ match # <<>>
        THEN [out |-> H3_PREFIX \o Strip(match[1]),
              in_key_findings |-> st.in_key_findings,
              in_actionable_recommendations |-> st.in_actionable_recommendations]
        ELSE [out |-> line,
              in_key_findings |-> st.in_key_findings,
              in_actionable_recommendations |-> st.in_actionable_recommendations]

(***************************************************************************)
(* transform_content, second loop: one line of temp_lines.  st holds the   *)
(* section flags, current_h3_active and processed_lines; the result is st  *)
(* after the line.                                                         *)
(***************************************************************************)
\* SubItem with > 8 at line 94
SubItem_deeper(line_content) ==
    LET m == sub_item_match(line_content)
    IN  IF m = <<>> THEN <<>>
        ELSE LET leading_spaces == m[1]
                 marker == m[2]
                 rest == Strip(m[3])
             IN  IF Len(leading_spaces) >= 1
                 THEN IF Len(leading_spaces) > 8
                      THEN <<leading_spaces \o marker \o <<" ">> \o rest>>
                      ELSE <<FOUR_SPACES \o marker \o <<" ">> \o rest>>
                 ELSE <<>>

\* lines 88-98: the line a bullet of the Actionable Recommendations section
\* is rewritten to, or <<>> when the line is left to the default rule
SubItem(line_content) ==
    LET m == sub_item_match(line_content)
    IN  IF m = <<>> THEN <<>>
        ELSE LET leading_spaces == m[1]
                 marker == m[2]
                 rest == Strip(m[3])
             IN  IF Len(leading_spaces) >= 1
                 THEN IF Len(leading_spaces) >= 8
                      THEN <<leading_spaces \o marker \o <<" ">> \o rest>>
                      ELSE <<FOUR_SPACES \o marker \o <<" ">> \o rest>>
                 ELSE <<>>

\* lines 100-103: the default rule
DefaultRule(original_line_stripped, processed_lines) ==
    IF original_line_stripped # <<>>
    THEN Append(processed_lines, original_line_stripped)
    ELSE IF processed_lines = <<>> \/ Strip(processed_lines[Len(processed_lines)]) # <<>>
    THEN Append(processed_lines, <<>>)
    ELSE processed_lines

\* Pass2Line with line_content appended at line 85
Pass2Line_numbered_unstripped(line_content, st) ==
    LET original_line_stripped == Strip(line_content)
        match == match_2d(line_content)
        sub == SubItem(line_content)
    IN  IF original_line_stripped = KEY_FINDINGS_H2
        THEN [in_key_findings |-> TRUE,
              in_actionable_recommendations |-> FALSE,
              current_h3_active |-> FALSE,
              processed_lines |-> Append(st.processed_lines, original_line_stripped)]
        ELSE IF original_line_stripped = ACTIONABLE_H2
        THEN [in_key_findings |-> FALSE,
              in_actionable_recommendations |-> TRUE,
              current_h3_active |-> FALSE,
              processed_lines |-> Append(st.processed_lines, original_line_stripped)]
        ELSE IF StartsWith(original_line_stripped, H2_PREFIX)
        THEN [in_key_findings |-> FALSE,
              in_actionable_recommendations |-> FALSE,
              current_h3_active |-> FALSE,
              processed_lines |-> Append(st.processed_lines, original_line_stripped)]
        ELSE IF StartsWith(original_line_stripped, H3_PREFIX)
        THEN [st EXCEPT !.current_h3_active = TRUE,
                        !.processed_lines = Append(@, original_line_stripped)]
        ELSE IF st.in_key_findings /\ st.current_h3_active /\ match # <<>>
        THEN [st EXCEPT !.processed_lines = Append(@, LIST_PREFIX \o Strip(match[1]))]
        ELSE IF st.in_actionable_recommendations /\ match_numbered(original_line_stripped)
        THEN [st EXCEPT !.processed_lines = Append(@, line_content)]
        ELSE IF st.in_actionable_recommendations /\ sub # <<>>
        THEN [st EXCEPT !.processed_lines = Append(@, sub[1])]
        ELSE [st EXCEPT !.processed_lines = DefaultRule(original_line_stripped, @)]

Pass2Line(line_content, st) ==
    LET original_line_stripped == Strip(line_content)
        match == match_2d(line_content)
        sub == SubItem(line_content)
    IN  IF original_line_stripped = KEY_FINDINGS_H2
        THEN [in_key_findings |-> TRUE,
              in_actionable_recommendations |-> FALSE,
              current_h3_active |-> FALSE,
              processed_lines |-> Append(st.processed_lines, original_line_stripped)]
        ELSE IF original_line_stripped = ACTIONABLE_H2
        THEN [in_key_findings |-> FALSE,
              in_actionable_recommendations |-> TRUE,
              current_h3_active |-> FALSE,
              processed_lines |-> Append(st.processed_lines, original_line_stripped)]
        ELSE IF StartsWith(original_line_stripped, H2_PREFIX)
        THEN [in_key_findings |-> FALSE,
              in_actionable_recommendations |-> FALSE,
              current_h3_active |-> FALSE,
              processed_lines |-> Append(st.processed_lines, original_line_stripped)]
        ELSE IF StartsWith(original_line_stripped, H3_PREFIX)
        THEN [st EXCEPT !.current_h3_active = TRUE,
                        !.processed_lines = Append(@, original_line_stripped)]
        ELSE IF st.in_key_findings /\ st.current_h3_active /\ match # <<>>
        THEN [st EXCEPT !.processed_lines = Append(@, LIST_PREFIX \o Strip(match[1]))]
        ELSE IF st.in_actionable_recommendations /\ match_numbered(original_line_stripped)
        THEN [st EXCEPT !.processed_lines = Append(@, original_line_stripped)]
        ELSE IF st.in_actionable_recommendations /\ sub # <<>>
        THEN [st EXCEPT !.processed_lines = Append(@, sub[1])]
        ELSE [st EXCEPT !.processed_lines = DefaultRule(original_line_stripped, @)]

(***************************************************************************)
(* transform_content, lines 106-122: the blank-line normalisation.         *)
(***************************************************************************)
\* lines 107-111: processed_lines without its leading run of blank lines
RECURSIVE DropLeadingBlank(_)
DropLeadingBlank(ls) ==
    IF ls # <<>> /\ Strip(ls[1]) = <<>> THEN DropLeadingBlank(Tail(ls)) ELSE ls

\* DedupLine with the test of line 114 comparing the line with the one
\* before it, in place of testing that both are blank
DedupLine_equal(l, deduped_blank_lines) ==
    IF deduped_blank_lines # <<>>
       /\ Strip(deduped_blank_lines[Len(deduped_blank_lines)]) = Strip(l)
    THEN deduped_blank_lines
    ELSE Append(deduped_blank_lines, l)

\* lines 113-116: one turn of the loop
DedupLine(l, deduped_blank_lines) ==
    IF Strip(l) = <<>> /\ deduped_blank_lines # <<>>
       /\ Strip(deduped_blank_lines[Len(deduped_blank_lines)]) = <<>>
    THEN deduped_blank_lines
    ELSE Append(deduped_blank_lines, l)

RECURSIVE Dedup(_, _)
Dedup(ls, acc) == IF ls = <<>> THEN acc ELSE Dedup(Tail(ls), DedupLine(ls[1], acc))

\* the number of "\n" of s from position k on
RECURSIVE NlRun(_, _)
NlRun(s, k) == IF k <= Len(s) /\ s[k] = NL THEN 1 + NlRun(s, k + 1) ELSE 0

\* re.sub with the quantifier left out of the pattern: every "\n" of s, from
\* position k on, becomes two
RECURSIVE CollapseEach(_, _)
CollapseEach(s, k) ==
    IF k > Len(s) THEN <<>>
    ELSE IF s[k] = NL THEN <<NL, NL>> \o CollapseEach(s, k + 1)
    ELSE <<s[k]>> \o CollapseEach(s, k + 1)

\* re.sub: every run of three or more "\n" of s, from position k on,
\* becomes two
RECURSIVE CollapseFrom(_, _)
CollapseFrom(s, k) ==
    IF k > Len(s) THEN <<>>
    ELSE IF NlRun(s, k) >= 3 THEN <<NL, NL>> \o CollapseFrom(s, k + NlRun(s, k))
    ELSE <<s[k]>> \o CollapseFrom(s, k + 1)

\* lines 118-120 without line 119
FinalText_no_strip(deduped_blank_lines) == CollapseFrom(join(deduped_blank_lines), 1)

\* lines 118-120
FinalText(deduped_blank_lines) == CollapseFrom(Strip(join(deduped_blank_lines)), 1)

(***************************************************************************)
(* transform_content as a function of its argument: the composition of     *)
(* the steps above.  The flags the first loop ends with are the flags the  *)
(* second loop starts with: lines 46-47 reset neither.                     *)
(***************************************************************************)
RECURSIVE Pass1(_, _, _)
Pass1(lines, st, temp_lines) ==
    IF lines = <<>>
    THEN [temp_lines |-> temp_lines,
          in_key_findings |-> st.in_key_findings,
          in_actionable_recommendations |-> st.in_actionable_recommendations]
    ELSE LET r == Pass1Line(lines[1], st)
         IN  Pass1(Tail(lines), r, Append(temp_lines, r.out))

RECURSIVE Pass2(_, _)
Pass2(temp_lines, st) ==
    IF temp_lines = <<>> THEN st ELSE Pass2(Tail(temp_lines), Pass2Line(temp_lines[1], st))

transform_content(content) ==
    LET p1 == Pass1(splitlines(content),
                    [in_key_findings |-> FALSE, in_actionable_recommendations |-> FALSE],
                    <<>>)
        p2 == Pass2(p1.temp_lines,
                    [in_key_findings |-> p1.in_key_findings,
                     in_actionable_recommendations |-> p1.in_actionable_recommendations,
                     current_h3_active |-> FALSE,
                     processed_lines |-> <<>>])
    IN  FinalText(Dedup(DropLeadingBlank(p2.processed_lines), <<>>))


(***************************************************************************)
(* check_if_transformed.  text is what the file holds; read_ok is false    *)
(* when opening or reading the file raises.  The lines a file iterates     *)
(* over are, for the texts of this model, the lines of splitlines.         *)
(***************************************************************************)
RECURSIVE FirstNonBlank(_)
FirstNonBlank(ls) ==
    IF ls = <<>> THEN <<>>
    ELSE IF Strip(ls[1]) = <<>> THEN FirstNonBlank(Tail(ls))
    ELSE <<Strip(ls[1])>>

\* check_if_transformed with the return False of line 136 left out: the loop
\* goes on to the lines after the first that is not blank
check_if_transformed_any_line(text, read_ok) ==
    /\ read_ok
    /\ \E k \in 1..Len(splitlines(text)) :
          StartsWith(Strip(splitlines(text)[k]), FILE_PATH_H2)

check_if_transformed(text, read_ok) ==
    LET first == FirstNonBlank(splitlines(text))
    IN  IF ~read_ok THEN FALSE
        ELSE IF first = <<>> THEN FALSE
        ELSE StartsWith(first[1], FILE_PATH_H2)

\* s.endswith(p)
EndsWith(s, p) == Len(s) >= Len(p) /\ SubSeq(s, Len(s) - Len(p) + 1, Len(s)) = p

MD_SUFFIX == <<".", "m", "d">>

(***************************************************************************)
(* The documents and the files.                                            *)
(***************************************************************************)
RECURSIVE Document(_)
Document(ls) == IF ls = <<>> THEN <<>> ELSE ls[1] \o <<NL>> \o Document(Tail(ls))

\* the documents of up to n lines of L, each line ended by "\n"
Documents(L, n) == {Document(ls) : ls \in UNION {[1..m -> L] : m \in 0..n}}

Inputs == Documents(InputLines, MaxLines)
LayoutInputs == Documents(LayoutLines, MaxLayoutLines)

\* what a.md holds when the script starts: nothing, a plain line, a report
\* that starts with its File Path label, the same after an empty line, a
\* report with a line before the label, and a report already transformed
FileDocs ==
    {Document(<<>>),
     Document(<<L_Looks>>),
     Document(<<L_FilePath, L_Looks>>),
     Document(<<L_Empty, L_FilePath>>),
     Document(<<L_Looks, L_FilePath>>),
     Document(<<L_FilePathH2, L_Looks>>),
     Document(<<L_Spaces, L_FilePathH2>>),
     Document(<<L_Looks, L_FilePathH2>>)}

\* the identifiers of the command line: two Markdown files, a file that is
\* not Markdown and a name no file has
A_MD == <<"a", ".", "m", "d">>
B_MD == <<"b", ".", "m", "d">>
NOTES_TXT == <<"n", ".", "t", "x", "t">>
GONE_MD == <<"g", ".", "m", "d">>
Idents == {A_MD, B_MD, NOTES_TXT, GONE_MD}
ArgLists == UNION {[1..n -> Idents] : n \in 0..MaxArgs}

\* a file with a text, and the name no file has
File(text) == [exists |-> TRUE, text |-> text]
NoFile == [exists |-> FALSE, text |-> <<>>]

(***************************************************************************)
(* State.  The first group is one call of transform_content, a step at a   *)
(* time: pc is the place in the function ("pass1" the loop of lines 13-44, *)
(* "pass2" the loop of lines 49-103, "dedup" lines 113-116, "join" lines   *)
(* 118-122, "done" the return, "idle" no call) and i the index of the next *)
(* line of the running loop.  The second group is the script: fs the       *)
(* files, argv the identifiers of the command line, arg the index of the   *)
(* next one, run the number of the run, faults the reads and writes that   *)
(* have failed, log what the script has reported (one entry an identifier  *)
(* handled), bpc the place in the script ("loop"                           *)
(* the loop of lines 150-181, "summary" the exit after lines 183-185,      *)
(* "usage" the exit of line 145, "idle" when no script runs).              *)
(***************************************************************************)
VARIABLES content, lines, temp_lines, processed_lines, deduped_blank_lines,
          final_text, in_key_findings, in_actionable_recommendations,
          current_h3_active, i, pc,
          fs, argv, arg, run, faults, files_processed_count,
          files_skipped_count, log, bpc

tvars == <<content, lines, temp_lines, processed_lines, deduped_blank_lines,
           final_text, in_key_findings, in_actionable_recommendations,
           current_h3_active, i, pc>>

bvars == <<fs, argv, arg, run, faults, files_processed_count,
           files_skipped_count, log, bpc>>

vars == <<tvars, bvars>>

\* no call of transform_content is being stepped through
NoCall ==
    /\ content = <<>>
    /\ lines = <<>>
    /\ temp_lines = <<>>
    /\ processed_lines = <<>>
    /\ deduped_blank_lines = <<>>
    /\ final_text = <<>>
    /\ in_key_findings = FALSE
    /\ in_actionable_recommendations = FALSE
    /\ current_h3_active = FALSE
    /\ i = 1
    /\ pc = "idle"

\* no script is running
NoScript ==
    /\ fs = [p \in Idents |-> NoFile]
    /\ argv = <<>>
    /\ arg = 1
    /\ run = 1
    /\ faults = 0
    /\ files_processed_count = 0
    /\ files_skipped_count = 0
    /\ log = <<>>
    /\ bpc = "idle"

\* lines 5-12: transform_content is called with a document of D
Call(D) ==
    /\ content \in D
    /\ lines = splitlines(content)
    /\ temp_lines = <<>>
    /\ processed_lines = <<>>
    /\ deduped_blank_lines = <<>>
    /\ final_text = <<>>
    /\ in_key_findings = FALSE
    /\ in_actionable_recommendations = FALSE
    /\ current_h3_active = FALSE
    /\ i = 1
    /\ pc = "pass1"

Init == Call(Inputs) /\ NoScript

InitLayout == Call(LayoutInputs) /\ NoScript

\* lines 13-44, one turn of the loop
Pass1Step ==
    /\ pc = "pass1"
    /\ i <= Len(lines)
    /\ LET r == Pass1Line(lines[i], [in_key_findings |-> in_key_findings,
                                     in_actionable_recommendations |->
                                         in_actionable_recommendations])
       IN  /\ temp_lines' = Append(temp_lines, r.out)
           /\ in_key_findings' = r.in_key_findings
           /\ in_actionable_recommendations' = r.in_actionable_recommendations
    /\ i' = i + 1
    /\ UNCHANGED <<content, lines, processed_lines, deduped_blank_lines, final_text,
                   current_h3_active, pc>>
    /\ UNCHANGED bvars

\* lines 46-47: the first loop is over, the second begins
Pass1Done ==
    /\ pc = "pass1"
    /\ i > Len(lines)
    /\ processed_lines' = <<>>
    /\ current_h3_active' = FALSE
    /\ i' = 1
    /\ pc' = "pass2"
    /\ UNCHANGED <<content, lines, temp_lines, deduped_blank_lines, final_text,
                   in_key_findings, in_actionable_recommendations>>
    /\ UNCHANGED bvars

\* lines 49-103, one turn of the loop
Pass2Step ==
    /\ pc = "pass2"
    /\ i <= Len(temp_lines)
    /\ LET r == Pass2Line(temp_lines[i],
                          [in_key_findings |-> in_key_findings,
                           in_actionable_recommendations |-> in_actionable_recommendations,
                           current_h3_active |-> current_h3_active,
                           processed_lines |-> processed_lines])
       IN  /\ processed_lines' = r.processed_lines
           /\ in_key_findings' = r.in_key_findings
           /\ in_actionable_recommendations' = r.in_actionable_recommendations
           /\ current_h3_active' = r.current_h3_active
    /\ i' = i + 1
    /\ UNCHANGED <<content, lines, temp_lines, deduped_blank_lines, final_text, pc>>
    /\ UNCHANGED bvars

\* lines 106-111: the second loop is over; the leading blank lines go
StripLeading ==
    /\ pc = "pass2"
    /\ i > Len(temp_lines)
    /\ deduped_blank_lines' = <<>>
    /\ processed_lines' = DropLeadingBlank(processed_lines)
    /\ pc' = "dedup"
    /\ UNCHANGED <<content, lines, temp_lines, final_text, in_key_findings,
                   in_actionable_recommendations, current_h3_active, i>>
    /\ UNCHANGED bvars

\* lines 113-116, the whole loop
DedupBlank ==
    /\ pc = "dedup"
    /\ deduped_blank_lines' = Dedup(processed_lines, <<>>)
    /\ pc' = "join"
    /\ UNCHANGED <<content, lines, temp_lines, processed_lines, final_text,
                   in_key_findings, in_actionable_recommendations, current_h3_active, i>>
    /\ UNCHANGED bvars

\* lines 118-122
Return ==
    /\ pc = "join"
    /\ final_text' = FinalText(deduped_blank_lines)
    /\ pc' = "done"
    /\ UNCHANGED <<content, lines, temp_lines, processed_lines, deduped_blank_lines,
                   in_key_findings, in_actionable_recommendations, current_h3_active, i>>
    /\ UNCHANGED bvars

(***************************************************************************)
(* The script, lines 142-185.  Each action is one turn of the loop of      *)
(* lines 150-181, from the test of the identifier to the continue or the   *)
(* end of the body it takes; the actions differ in the way the turn ends.  *)
(* read_ok is whether the detector could read the file; the detector       *)
(* answers False when it could not.                                        *)
(***************************************************************************)
file_path == argv[arg]

InLoop == bpc = "loop" /\ argv # <<>> /\ arg <= Len(argv)

\* what the script reports for the identifier it has handled: detector is
\* "not_run", "unreadable", "no" or "yes"; original_content what line 168
\* read, <<>> when the turn did not get there
Report(outcome, detector, original_content) ==
    [run |-> run, file_path |-> file_path, outcome |-> outcome,
     detector |-> detector, original_content |-> original_content]

Detector(text, read_ok) ==
    IF ~read_ok THEN "unreadable"
    ELSE IF check_if_transformed(text, read_ok) THEN "yes" ELSE "no"

\* lines 143-145
Usage ==
    /\ bpc = "loop"
    /\ argv = <<>>
    /\ bpc' = "usage"
    /\ UNCHANGED <<fs, argv, arg, run, faults, files_processed_count, files_skipped_count,
                   log>>
    /\ UNCHANGED tvars

\* lines 151-154
SkipNonMarkdown ==
    /\ InLoop
    /\ ~EndsWith(file_path, MD_SUFFIX)
    /\ files_skipped_count' = files_skipped_count + 1
    /\ log' = Append(log, Report("skipped_non_markdown", "not_run", <<>>))
    /\ arg' = arg + 1
    /\ UNCHANGED <<fs, argv, run, faults, files_processed_count, bpc>>
    /\ UNCHANGED tvars

\* NotFound with break in place of the continue of line 158: the loop ends
\* at the identifier no file has
NotFound_break ==
    /\ InLoop
    /\ EndsWith(file_path, MD_SUFFIX)
    /\ ~fs[file_path].exists
    /\ log' = Append(log, Report("not_found", "not_run", <<>>))
    /\ arg' = Len(argv) + 1
    /\ UNCHANGED <<fs, argv, run, faults, files_processed_count, files_skipped_count, bpc>>
    /\ UNCHANGED tvars

\* lines 151-158
NotFound ==
    /\ InLoop
    /\ EndsWith(file_path, MD_SUFFIX)
    /\ ~fs[file_path].exists
    /\ log' = Append(log, Report("not_found", "not_run", <<>>))
    /\ arg' = arg + 1
    /\ UNCHANGED <<fs, argv, run, faults, files_processed_count, files_skipped_count, bpc>>
    /\ UNCHANGED tvars

\* lines 151-163
SkipTransformed ==
    /\ InLoop
    /\ EndsWith(file_path, MD_SUFFIX)
    /\ fs[file_path].exists
    /\ check_if_transformed(fs[file_path].text, TRUE)
    /\ files_skipped_count' = files_skipped_count + 1
    /\ log' = Append(log, Report("skipped_transformed", "yes", <<>>))
    /\ arg' = arg + 1
    /\ UNCHANGED <<fs, argv, run, faults, files_processed_count, bpc>>
    /\ UNCHANGED tvars

\* the reads of the detector that the failures left allow
DetectorReads(left) == IF left >= 1 THEN BOOLEAN ELSE {TRUE}

\* the failures a turn adds when the detector's read was read_ok
Failed(read_ok) == IF read_ok THEN 0 ELSE 1

\* ReadError with the file opened for writing before it is read: the open
\* empties the file
ReadError_truncates ==
    /\ InLoop
    /\ EndsWith(file_path, MD_SUFFIX)
    /\ fs[file_path].exists
    /\ \E read_ok \in DetectorReads(MaxFaults - faults - 1) :
          /\ ~check_if_transformed(fs[file_path].text, read_ok)
          /\ faults + Failed(read_ok) < MaxFaults
          /\ faults' = faults + Failed(read_ok) + 1
          /\ log' = Append(log, Report("read_error",
                                       Detector(fs[file_path].text, read_ok), <<>>))
    /\ fs' = [fs EXCEPT ![file_path] = File(<<>>)]
    /\ arg' = arg + 1
    /\ UNCHANGED <<argv, run, files_processed_count, files_skipped_count, bpc>>
    /\ UNCHANGED tvars

\* lines 151-171: the read of line 168 raises
ReadError ==
    /\ InLoop
    /\ EndsWith(file_path, MD_SUFFIX)
    /\ fs[file_path].exists
    /\ \E read_ok \in DetectorReads(MaxFaults - faults - 1) :
          /\ ~check_if_transformed(fs[file_path].text, read_ok)
          /\ faults + Failed(read_ok) < MaxFaults
          /\ faults' = faults + Failed(read_ok) + 1
          /\ log' = Append(log, Report("read_error",
                                       Detector(fs[file_path].text, read_ok), <<>>))
    /\ arg' = arg + 1
    /\ UNCHANGED <<fs, argv, run, files_processed_count, files_skipped_count, bpc>>
    /\ UNCHANGED tvars

\* lines 151-181: open or write of lines 176-177 raises; the file is as it
\* was when open raised and empty when write raised after open truncated it
WriteError ==
    /\ InLoop
    /\ EndsWith(file_path, MD_SUFFIX)
    /\ fs[file_path].exists
    /\ \E read_ok \in DetectorReads(MaxFaults - faults - 1), truncated \in BOOLEAN :
          /\ ~check_if_transformed(fs[file_path].text, read_ok)
          /\ faults + Failed(read_ok) < MaxFaults
          /\ faults' = faults + Failed(read_ok) + 1
          /\ log' = Append(log, Report("write_error",
                                       Detector(fs[file_path].text, read_ok),
                                       fs[file_path].text))
          /\ fs' = IF truncated THEN [fs EXCEPT ![file_path] = File(<<>>)] ELSE fs
    /\ arg' = arg + 1
    /\ UNCHANGED <<argv, run, files_processed_count, files_skipped_count, bpc>>
    /\ UNCHANGED tvars

\* lines 151-178: the file is read, transformed and written
Processed ==
    /\ InLoop
    /\ EndsWith(file_path, MD_SUFFIX)
    /\ fs[file_path].exists
    /\ \E read_ok \in DetectorReads(MaxFaults - faults) :
          /\ ~check_if_transformed(fs[file_path].text, read_ok)
          /\ faults' = faults + Failed(read_ok)
          /\ log' = Append(log, Report("processed",
                                       Detector(fs[file_path].text, read_ok),
                                       fs[file_path].text))
    /\ fs' = [fs EXCEPT ![file_path] = File(transform_content(fs[file_path].text))]
    /\ files_processed_count' = files_processed_count + 1
    /\ arg' = arg + 1
    /\ UNCHANGED <<argv, run, files_skipped_count, bpc>>
    /\ UNCHANGED tvars

\* lines 183-185: the loop is over
Summary ==
    /\ bpc = "loop"
    /\ argv # <<>>
    /\ arg > Len(argv)
    /\ bpc' = "summary"
    /\ UNCHANGED <<fs, argv, arg, run, faults, files_processed_count, files_skipped_count,
                   log>>
    /\ UNCHANGED tvars

\* lines 142-148: the script is run a second time with the same command
\* line
RunAgain ==
    /\ bpc = "summary"
    /\ run = 1
    /\ run' = 2
    /\ arg' = 1
    /\ files_processed_count' = 0
    /\ files_skipped_count' = 0
    /\ bpc' = "loop"
    /\ UNCHANGED <<fs, argv, faults, log>>
    /\ UNCHANGED tvars

\* lines 142-148: the script starts; a.md holds a document of FileDocs
InitBatch ==
    /\ NoCall
    /\ \E d \in FileDocs :
          fs = [p \in Idents |->
                  IF p = A_MD THEN File(d)
                  ELSE IF p = B_MD THEN File(Document(<<L_Looks, L_FilePath>>))
                  ELSE IF p = NOTES_TXT THEN File(Document(<<L_FilePath>>))
                  ELSE NoFile]
    /\ argv \in ArgLists
    /\ arg = 1
    /\ run = 1
    /\ faults = 0
    /\ files_processed_count = 0
    /\ files_skipped_count = 0
    /\ log = <<>>
    /\ bpc = "loop"

Next ==
    \/ Pass1Step
    \/ Pass1Done
    \/ Pass2Step
    \/ StripLeading
    \/ DedupBlank
    \/ Return

NextBatch ==
    \/ Usage
    \/ SkipNonMarkdown
    \/ NotFound
    \/ SkipTransformed
    \/ ReadError
    \/ WriteError
    \/ Processed
    \/ Summary
    \/ RunAgain

\* one call of transform_content on a document of InputLines
Spec == Init /\ [][Next]_vars

\* one call of transform_content on a document of LayoutLines
SpecLayout == InitLayout /\ [][Next]_vars

\* the script, run twice on the same command line
SpecBatch == InitBatch /\ [][NextBatch]_vars

\* lines 150-181: a turn of the loop, whichever way it ends
Turn == InLoop /\ arg' = arg + 1

\* the script as one sequential process that nothing holds up: while an
\* identifier is left the loop takes its next turn, and when none is left
\* the script goes on to lines 183-185.  Nothing makes a second run start.
SpecBatchFair == SpecBatch /\ WF_arg(Turn) /\ WF_bpc(Summary)

(***************************************************************************)
(* What the properties below are stated with.                              *)
(***************************************************************************)
\* the call has returned
Done == pc = "done"

\* the lines of the text the call returned
output_lines == splitlines(final_text)

\* the lines of ls that are not blank, in their order
NonBlank(ls) == SelectSeq(ls, LAMBDA l : ~IsBlank(l))

\* the place of line k of ls among the lines of ls that are not blank
Rank(ls, k) == Cardinality({j \in 1..k : ~IsBlank(ls[j])})

\* s without the whitespace it starts and ends with, by counting
Trimmed(s) == IF IsBlank(s) THEN <<>> ELSE SubSeq(s, LeadingWs(s) + 1, Len(s) - TrailingWs(s))

\* the output line that stands where line k of the input stood: only blank
\* lines are dropped on the way
OutputOf(k) == NonBlank(output_lines)[Rank(lines, k)]

\* a line of the input that gives an H2 line of the output: a File Path
\* line, one of the three labels, or a line that is an H2 line already
IsFilePathLine(l) ==
    /\ Len(Trimmed(l)) >= Len(FILE_PATH_LABEL)
    /\ SubSeq(Trimmed(l), 1, Len(FILE_PATH_LABEL)) = FILE_PATH_LABEL

IsLabel(l) == Trimmed(l) \in {OVERALL_LABEL, KEY_FINDINGS_LABEL, ACTIONABLE_LABEL}

IsH2Line(l) == Len(Trimmed(l)) >= 3 /\ SubSeq(Trimmed(l), 1, 3) = <<"#", "#", " ">>

GivesH2(l) == IsFilePathLine(l) \/ IsLabel(l) \/ IsH2Line(l)

(***************************************************************************)
(* C1.  transform_content is idempotent: transforming the text a call      *)
(* returned gives that text again, also when bullet lines stand before the *)
(* label of the section they would belong to.                              *)
(***************************************************************************)
C1_Idempotent == Done => transform_content(final_text) = final_text

(***************************************************************************)
(* C2.  For "File Path: a.md\nOverall Assessment:\nLooks fine.\n" the call *)
(* returns the two headings and the line, and, as the claim has it, an     *)
(* empty line between the headings.                                        *)
(***************************************************************************)
C2_Input == Document(<<L_FilePath, L_Overall, L_Looks>>)

C2_ClaimedOutput ==
    L_FilePathH2 \o <<NL, NL>> \o OVERALL_H2 \o <<NL>> \o L_Looks

C2_BlankLineBetweenHeadings == (Done /\ content = C2_Input) => final_text = C2_ClaimedOutput

\* C2 as amended: the call returns exactly the three lines
\* "## File Path: `a.md`", "## Overall Assessment", "Looks fine.", with no
\* empty line between them and no "\n" at the end.
C2_ThreeLines ==
    (Done /\ content = C2_Input) =>
        final_text = L_FilePathH2 \o <<NL>> \o OVERALL_H2 \o <<NL>> \o L_Looks

C2_Witness == Done /\ content = C2_Input

(***************************************************************************)
(* C3.  A second run of the script skips, as already transformed, every    *)
(* file that the first run processed and wrote, whatever the file held.    *)
(* The property is stated on the reports of the two runs, for the runs in  *)
(* which no read and no write failed.                                      *)
(***************************************************************************)
SameFile(k, m) == log[k].file_path = log[m].file_path

C3_SecondRunSkips ==
    \A k, m \in DOMAIN log :
        (/\ faults = 0
         /\ log[k].run = 1 /\ log[k].outcome = "processed"
         /\ log[m].run = 2 /\ SameFile(k, m))
        => log[m].outcome = "skipped_transformed"

(***************************************************************************)
(* C4.  The text a call returns never holds three "\n" in a row.           *)
(***************************************************************************)
C4_NoTripleNewline ==
    \A k \in 1..(Len(final_text) - 2) :
        ~(final_text[k] = NL /\ final_text[k + 1] = NL /\ final_text[k + 2] = NL)

\* the input held two blank lines in a row between two lines that are not
\* blank, and the call has returned
C4_Witness ==
    /\ Done
    /\ \E k \in 2..(Len(lines) - 2) :
          /\ ~IsBlank(lines[k - 1])
          /\ IsBlank(lines[k])
          /\ IsBlank(lines[k + 1])
          /\ ~IsBlank(lines[k + 2])
    /\ \E k \in 1..(Len(final_text) - 1) : final_text[k] = NL /\ final_text[k + 1] = NL

(***************************************************************************)
(* C5.  The text a call returns neither starts nor ends with whitespace:   *)
(* it is empty, or its first and its last character are not whitespace     *)
(* (and so its first and its last line are not blank).                     *)
(***************************************************************************)
C5_NoOuterWhitespace ==
    Done =>
        \/ final_text = <<>>
        \/ /\ final_text[1] \notin Whitespace
           /\ final_text[Len(final_text)] \notin Whitespace
           /\ ~IsBlank(output_lines[1])
           /\ ~IsBlank(output_lines[Len(output_lines)])

\* the lines joined started or ended with whitespace, and the call has
\* returned
C5_Witness ==
    /\ Done
    /\ deduped_blank_lines # <<>>
    /\ \/ IsBlank(deduped_blank_lines[Len(deduped_blank_lines)])
       \/ LeadingWs(deduped_blank_lines[1]) > 0
       \/ TrailingWs(deduped_blank_lines[Len(deduped_blank_lines)]) > 0

(***************************************************************************)
(* C6.  Every line of the input whose trimmed form starts with             *)
(* "File Path: ", wherever it stands and whatever the section, gives       *)
(* exactly one line of the output, the heading "## File Path: `p`" with p  *)
(* the trimmed rest of the line, in the place of the line.                 *)
(***************************************************************************)
C6_FilePathHeading ==
    Done =>
        /\ Len(NonBlank(output_lines)) = Len(NonBlank(lines))
        /\ \A k \in 1..Len(lines) :
              IsFilePathLine(lines[k]) =>
                  OutputOf(k) = <<"#", "#", " ">> \o FILE_PATH_LABEL \o <<BACKTICK>>
                                \o Trimmed(From(Trimmed(lines[k]), Len(FILE_PATH_LABEL)))
                                \o <<BACKTICK>>

\* a File Path line with whitespace around label and path stood right after
\* the label of a section, and the call has returned
C6_Witness ==
    /\ Done
    /\ \E k \in 2..Len(lines) :
          /\ lines[k] = L_Padded
          /\ Trimmed(lines[k - 1]) \in {KEY_FINDINGS_LABEL, ACTIONABLE_LABEL}

(***************************************************************************)
(* C7.  Every line of the input that is, trimmed, one of the three labels  *)
(* gives exactly one line of the output, the H2 heading of that label, in  *)
(* the place of the line: the headings keep the order of the labels.       *)
(***************************************************************************)
HeadingOf(label) == <<"#", "#", " ">> \o SubSeq(label, 1, Len(label) - 1)

C7_LabelHeadings ==
    Done =>
        /\ Len(NonBlank(output_lines)) = Len(NonBlank(lines))
        /\ \A k \in 1..Len(lines) :
              IsLabel(lines[k]) => OutputOf(k) = HeadingOf(Trimmed(lines[k]))

\* the input held two different labels, the later of the script's three
\* first, and the call has returned
C7_Witness ==
    /\ Done
    /\ \E j, k \in 1..Len(lines) :
          /\ j < k
          /\ Trimmed(lines[j]) = ACTIONABLE_LABEL
          /\ Trimmed(lines[k]) \in {OVERALL_LABEL, KEY_FINDINGS_LABEL}

(***************************************************************************)
(* C8.  A line "* text:" (whitespace before the "*" allowed, one or more   *)
(* spaces after it) that stands after a "Key Findings and Suggestions:"    *)
(* label, with no other line that gives an H2 between the two, is          *)
(* "### text" in the output.  text is what stands between the spaces and   *)
(* the last ":", and holds a character that is not whitespace.             *)
(***************************************************************************)
IsTitleLine(l) ==
    LET s == Trimmed(l)
    IN  /\ Len(s) >= 4
        /\ s[1] = "*"
        /\ s[2] \in Whitespace
        /\ s[Len(s)] = ":"
        /\ ~IsBlank(SubSeq(s, 2, Len(s) - 1))

TitleOf(l) == Trimmed(SubSeq(Trimmed(l), 2, Len(Trimmed(l)) - 1))

\* line k of ls stands after a line that is, trimmed, heading, and no line
\* between the two satisfies Breaks
InSectionOf(ls, k, heading, Breaks(_)) ==
    \E j \in 1..(k - 1) :
        /\ Trimmed(ls[j]) = heading
        /\ \A h \in (j + 1)..(k - 1) : ~Breaks(ls[h])

C8_TitleBecomesH3 ==
    Done =>
        \A k \in 1..Len(lines) :
            (IsTitleLine(lines[k]) /\ InSectionOf(lines, k, KEY_FINDINGS_LABEL, GivesH2))
            => OutputOf(k) = <<"#", "#", "#", " ">> \o TitleOf(lines[k])

\* a title line stood in a Key Findings section, and the call has returned
C8_Witness ==
    /\ Done
    /\ \E k \in 1..Len(lines) :
          IsTitleLine(lines[k]) /\ InSectionOf(lines, k, KEY_FINDINGS_LABEL, GivesH2)

(***************************************************************************)
(* C9.  In an Actionable Recommendations section, after its heading and    *)
(* before the next H2, the second loop appends for a line of n whitespace  *)
(* characters, "*" or "-", one or more spaces and rest: four spaces, the   *)
(* marker, a space and rest when 1 <= n <= 7; the n characters, the        *)
(* marker, a space and rest when n >= 8; the trimmed line when n = 0.  The *)
(* lines are those the second loop reads, temp_lines.                      *)
(***************************************************************************)
IsBulletLine(l) ==
    /\ Len(l) >= LeadingWs(l) + 2
    /\ l[LeadingWs(l) + 1] \in {"*", "-"}
    /\ l[LeadingWs(l) + 2] \in Whitespace

BulletOf(l) ==
    LET n == LeadingWs(l)
        tail == <<l[n + 1], " ">> \o Trimmed(From(l, n + 1))
    IN  IF n = 0 THEN Trimmed(l)
        ELSE IF n <= 7 THEN <<" ", " ", " ", " ">> \o tail
        ELSE SubSeq(l, 1, n) \o tail

\* the second loop has just read line i - 1 of temp_lines
JustRead == pc = "pass2" /\ i > 1

LastAppended == processed_lines[Len(processed_lines)]

C9_BulletIndentation ==
    (/\ JustRead
     /\ IsBulletLine(temp_lines[i - 1])
     /\ InSectionOf(temp_lines, i - 1, ACTIONABLE_H2, IsH2Line))
    => /\ processed_lines # <<>>
       /\ LastAppended = BulletOf(temp_lines[i - 1])

\* the second loop has just read, in an Actionable Recommendations section,
\* a bullet of eight or more characters of indentation, after one of fewer
C9_Witness ==
    /\ JustRead
    /\ i > 3
    /\ IsBulletLine(temp_lines[i - 1])
    /\ LeadingWs(temp_lines[i - 1]) >= 8
    /\ IsBulletLine(temp_lines[i - 2])
    /\ LeadingWs(temp_lines[i - 2]) \in 1..7
    /\ InSectionOf(temp_lines, i - 2, ACTIONABLE_H2, IsH2Line)

(***************************************************************************)
(* C10.  In an Actionable Recommendations section the second loop appends, *)
(* for a line whose trimmed form is digits, ".", one or more spaces and    *)
(* rest, the trimmed line, whatever the indentation of the line; the rule  *)
(* of the bullets does not get to rewrite it.                              *)
(***************************************************************************)
IsNumberedLine(l) ==
    LET s == Trimmed(l)
    IN  \E d \in 1..(Len(s) - 2) :
            /\ \A j \in 1..d : s[j] \in Digits
            /\ s[d + 1] = "."
            /\ s[d + 2] \in Whitespace

C10_NumberedItem ==
    (/\ JustRead
     /\ IsNumberedLine(temp_lines[i - 1])
     /\ InSectionOf(temp_lines, i - 1, ACTIONABLE_H2, IsH2Line))
    => /\ processed_lines # <<>>
       /\ LastAppended = Trimmed(temp_lines[i - 1])

\* the second loop has just read an indented numbered line in an Actionable
\* Recommendations section
C10_Witness ==
    /\ JustRead
    /\ IsNumberedLine(temp_lines[i - 1])
    /\ LeadingWs(temp_lines[i - 1]) > 0
    /\ InSectionOf(temp_lines, i - 1, ACTIONABLE_H2, IsH2Line)

(***************************************************************************)
(* C11.  check_if_transformed returns True exactly when the file could be  *)
(* read and its first line that is not blank starts, trimmed, with         *)
(* "## File Path: `": it returns False when that line is another, when no  *)
(* line is not blank, and when the read fails; the lines after the first   *)
(* that is not blank do not count.  The script skips the file as already   *)
(* transformed exactly when the detector returned True, so the property is *)
(* stated on every turn of the loop that got to the detector.              *)
(***************************************************************************)
FirstLineIsFilePathHeading(text) ==
    \E k \in 1..Len(splitlines(text)) :
        /\ \A j \in 1..(k - 1) : IsBlank(splitlines(text)[j])
        /\ Len(Trimmed(splitlines(text)[k])) >= 15
        /\ SubSeq(Trimmed(splitlines(text)[k]), 1, 15)
               = <<"#", "#", " ">> \o FILE_PATH_LABEL \o <<BACKTICK>>

\* some line of text after the first that is not blank is a File Path
\* heading
LaterLineIsFilePathHeading(text) ==
    \E j, k \in 1..Len(splitlines(text)) :
        /\ j < k
        /\ ~IsBlank(splitlines(text)[j])
        /\ SubSeq(Trimmed(splitlines(text)[k]), 1, 3) = <<"#", "#", " ">>
        /\ IsFilePathLine(From(Trimmed(splitlines(text)[k]), 3))

\* this step is a turn of the loop that got to the detector
DetectorRan == Len(log') = Len(log) + 1 /\ log'[Len(log')].detector # "not_run"

C11_DetectorDecides ==
    [][DetectorRan =>
          ((log'[Len(log')].outcome = "skipped_transformed")
           <=> (/\ log'[Len(log')].detector # "unreadable"
                /\ FirstLineIsFilePathHeading(fs[file_path].text)))]_vars

\* the script has skipped a file as already transformed, has gone on with a
\* file whose File Path heading stands after another line, and has gone on
\* with a file the detector could not read
C11_Witness ==
    /\ \E k \in DOMAIN log : log[k].outcome = "skipped_transformed"
    /\ \E k \in DOMAIN log :
          /\ log[k].detector = "no"
          /\ LaterLineIsFilePathHeading(log[k].original_content)
    /\ \E k \in DOMAIN log : log[k].detector = "unreadable"


(***************************************************************************)
(* C12.  In a run of the script every identifier of the command line is    *)
(* handled exactly once, in the order of the command line, and ends in one *)
(* of the six outcomes; an identifier that is not found, or whose read or  *)
(* write fails, does not keep the following ones from being handled; and   *)
(* the loop always gets to the summary.                                    *)
(***************************************************************************)
Outcomes ==
    {"skipped_non_markdown", "not_found", "skipped_transformed", "read_error",
     "write_error", "processed"}

Failures == {"not_found", "read_error", "write_error"}

\* the reports of run r, in the order they were made
ReportsOf(r) == SelectSeq(log, LAMBDA e : e.run = r)

\* a run is over and its reports are those of the identifiers of the command
\* line, one each and in their order
AllHandledInOrder ==
    /\ bpc = "summary"
    /\ Len(ReportsOf(run)) = Len(argv)
    /\ \A k \in 1..Len(argv) :
          /\ ReportsOf(run)[k].file_path = argv[k]
          /\ ReportsOf(run)[k].outcome \in Outcomes

C12_EveryIdentifierHandled == (bpc = "loop" /\ argv # <<>>) ~> AllHandledInOrder

\* a run is over in which an identifier that failed was followed by another
\* that was handled
C12_Witness ==
    /\ bpc = "summary"
    /\ \E k \in 1..(Len(ReportsOf(run)) - 1) : ReportsOf(run)[k].outcome \in Failures


(***************************************************************************)
(* C13.  The script opens a file for writing only when its identifier ends *)
(* with ".md", the file exists, the detector did not find it transformed   *)
(* and its text was read; the files of the identifiers that are skipped    *)
(* (not Markdown, not found, already transformed) or whose read fails are  *)
(* as they were, and so is every file other than the one being handled.    *)
(***************************************************************************)
NoWrite == {"skipped_non_markdown", "not_found", "skipped_transformed", "read_error"}

\* this step is a turn of the loop
Reported == Len(log') = Len(log) + 1

C13_WritesOnlyWhatItRead ==
    [][/\ ~Reported => fs' = fs
       /\ Reported =>
             /\ \A p \in Idents : p # file_path => fs'[p] = fs[p]
             /\ log'[Len(log')].outcome \in NoWrite => fs' = fs
             /\ log'[Len(log')].outcome \notin NoWrite =>
                   /\ file_path[Len(file_path) - 2] = "."
                   /\ file_path[Len(file_path) - 1] = "m"
                   /\ file_path[Len(file_path)] = "d"
                   /\ fs[file_path].exists
                   /\ log'[Len(log')].detector \in {"no", "unreadable"}
                   /\ log'[Len(log')].original_content = fs[file_path].text]_vars

\* the script has skipped an identifier, has failed to read a file, and has
\* written a file whose text it changed
C13_Witness ==
    /\ \E k \in DOMAIN log : log[k].outcome \in NoWrite \ {"read_error"}
    /\ \E k \in DOMAIN log : log[k].outcome = "read_error"
    /\ \E k \in DOMAIN log :
          /\ log[k].outcome = "processed"
          /\ fs[log[k].file_path].text # log[k].original_content


(***************************************************************************)
(* C14.  The rewriter looks at no line ahead and each loop tracks the      *)
(* section on its own: the second loop starts in no section and in no      *)
(* sub-block, so what a line gives depends on the line and on those before *)
(* it.  A line that stands before every line that gives an H2 is in the    *)
(* output trimmed, by the default rule, whatever labels come after it.     *)
(***************************************************************************)
\* the second loop is about to read its first line
Pass2Starts == pc = "pass2" /\ i = 1

\* no line of the input up to line k gives an H2
BeforeEveryHeading(k) == \A j \in 1..k : ~GivesH2(lines[j])

C14_NoLookahead ==
    /\ Pass2Starts =>
          /\ ~in_key_findings
          /\ ~in_actionable_recommendations
          /\ ~current_h3_active
    /\ Done =>
          \A k \in 1..Len(lines) :
              (~IsBlank(lines[k]) /\ BeforeEveryHeading(k))
              => OutputOf(k) = Trimmed(lines[k])


(***************************************************************************)
(* C15.  In the first loop no section is on right after an H2 line other   *)
(* than the Key Findings and the Actionable Recommendations headings has   *)
(* been appended, the File Path heading included; so a line "* text:" is   *)
(* not made "### text" when the nearest line before it that gives an H2 is *)
(* not the "Key Findings and Suggestions:" label.                          *)
(***************************************************************************)
\* the first loop has just appended line i - 1 of temp_lines
JustAppended == pc = "pass1" /\ i > 1

\* line k of the input has a line before it that gives an H2, and the
\* nearest is not the Key Findings label; or it has none
NotUnderKeyFindings(k) ==
    \A j \in 1..(k - 1) :
        (GivesH2(lines[j]) /\ \A h \in (j + 1)..(k - 1) : ~GivesH2(lines[h]))
        => Trimmed(lines[j]) # KEY_FINDINGS_LABEL

C15_Pass1ResetsAtEveryH2 ==
    /\ (/\ JustAppended
        /\ IsH2Line(temp_lines[i - 1])
        /\ Trimmed(temp_lines[i - 1]) \notin {KEY_FINDINGS_H2, ACTIONABLE_H2})
       => (~in_key_findings /\ ~in_actionable_recommendations)
    /\ Done =>
          \A k \in 1..Len(lines) :
              (IsTitleLine(lines[k]) /\ NotUnderKeyFindings(k))
              => OutputOf(k) # <<"#", "#", "#", " ">> \o TitleOf(lines[k])


(***************************************************************************)
(* C16.  In the second loop the sub-block flag is on only in the Key       *)
(* Findings section: every line starting with "### " that the loop reads,  *)
(* made by the first loop or already in the input, is read in that         *)
(* section.                                                                *)
(***************************************************************************)
IsH3Line(l) == Len(Trimmed(l)) >= 4 /\ SubSeq(Trimmed(l), 1, 4) = <<"#", "#", "#", " ">>

C16_SubBlockOnlyInKeyFindings ==
    pc = "pass2" =>
        /\ current_h3_active => in_key_findings
        /\ (i > 1 /\ IsH3Line(temp_lines[i - 1])) => in_key_findings


(***************************************************************************)
(* C17.  No content is lost and none is made twice: every line of the      *)
(* input that is not blank gives exactly one line of the output that is    *)
(* not blank, in the same order, and the lines dropped are blank lines     *)
(* only.  The content of a line is what it holds besides whitespace and    *)
(* the marks the rules put or take: "#", "*", "-", ":" and the quote of    *)
(* the path.                                                               *)
(***************************************************************************)
Marks == Whitespace \cup {"#", "*", "-", ":", BACKTICK}

ContentOf(l) == SelectSeq(l, LAMBDA c : c \notin Marks)

C17_NoContentLost ==
    Done =>
        LET given == NonBlank(lines)
            returned == NonBlank(output_lines)
        IN  /\ Len(returned) = Len(given)
            /\ Len(output_lines) <= Len(lines)
            /\ \A k \in 1..Len(given) : ContentOf(returned[k]) = ContentOf(given[k])

\* the call has returned for an input with a blank line that was dropped and
\* two lines of the same content next to each other, one of them rewritten
C17_Witness ==
    /\ Done
    /\ Len(output_lines) < Len(lines)
    /\ \E k \in 1..(Len(lines) - 1) :
          /\ ContentOf(lines[k]) # <<>>
          /\ ContentOf(lines[k]) = ContentOf(lines[k + 1])
          /\ OutputOf(k + 1) # lines[k + 1]


(***************************************************************************)
(* C18.  The second loop makes a line with a "*" bullet "- rest", rest     *)
(* trimmed, exactly when the line stands in the Key Findings section, a    *)
(* line starting with "### " has been read since the last H2 line, and the *)
(* line has two or more whitespace characters before the "*" and one or    *)
(* more after it; a bullet of the Key Findings section with fewer than two *)
(* before the "*", or before the first "### " line of the section, is      *)
(* appended trimmed, its "*" kept.  The section of a line is that of the   *)
(* last H2 line the loop has read before it.                               *)
(***************************************************************************)
IsStarBullet(l) == IsBulletLine(l) /\ l[LeadingWs(l) + 1] = "*"

DashItemOf(l) == <<"-", " ">> \o Trimmed(From(l, LeadingWs(l) + 1))

\* a line starting with "### " stands before line k of ls, with no H2 line
\* between the two
H3Since(ls, k) ==
    \E j \in 1..(k - 1) :
        /\ IsH3Line(ls[j])
        /\ \A h \in (j + 1)..(k - 1) : ~IsH2Line(ls[h])

InKeyFindings(ls, k) == InSectionOf(ls, k, KEY_FINDINGS_H2, IsH2Line)

C18_DashItemIff ==
    (JustRead /\ IsStarBullet(temp_lines[i - 1])) =>
        /\ processed_lines # <<>>
        /\ (LastAppended = DashItemOf(temp_lines[i - 1]))
           <=> (/\ InKeyFindings(temp_lines, i - 1)
                /\ H3Since(temp_lines, i - 1)
                /\ LeadingWs(temp_lines[i - 1]) >= 2)
        /\ (/\ InKeyFindings(temp_lines, i - 1)
            /\ ~(H3Since(temp_lines, i - 1) /\ LeadingWs(temp_lines[i - 1]) >= 2))
           => LastAppended = Trimmed(temp_lines[i - 1])


(***************************************************************************)
(* C19.  Every line of the text a call returns is an H2 or H3 heading, a   *)
(* "- " item, an item of exactly four or of eight or more whitespace       *)
(* characters and a "*" or "-" marker, a line that neither starts nor ends *)
(* with whitespace, or an empty line; no line starts with one to three or  *)
(* with five to seven whitespace characters.                               *)
(***************************************************************************)
IsHeadingShape(l) == LeadingWs(l) = 0 /\ (IsH2Line(l) \/ IsH3Line(l))

IsDashItemShape(l) == Len(l) >= 2 /\ l[1] = "-" /\ l[2] = " "

IsIndentedItemShape(l) ==
    /\ LeadingWs(l) = 4 \/ LeadingWs(l) >= 8
    /\ Len(l) > LeadingWs(l)
    /\ l[LeadingWs(l) + 1] \in {"*", "-"}

IsTrimmedShape(l) == l # <<>> /\ l[1] \notin Whitespace /\ l[Len(l)] \notin Whitespace

C19_LineShapes ==
    Done =>
        \A k \in 1..Len(output_lines) :
            /\ \/ IsHeadingShape(output_lines[k])
               \/ IsDashItemShape(output_lines[k])
               \/ IsIndentedItemShape(output_lines[k])
               \/ IsTrimmedShape(output_lines[k])
               \/ output_lines[k] = <<>>
            /\ LeadingWs(output_lines[k]) \notin {1, 2, 3, 5, 6, 7}


(***************************************************************************)
(* C20.  At every step of both loops in_key_findings and                   *)
(* in_actionable_recommendations are not both true: the section is one of  *)
(* none, Key Findings and Actionable Recommendations, and the rule of the  *)
(* Key Findings bullets and the rules of the Actionable Recommendations    *)
(* section never both apply to a line.                                     *)
(***************************************************************************)
C20_OneSection == ~(in_key_findings /\ in_actionable_recommendations)

\* a loop has just gone from one of the two sections to the other
C20_Witness ==
    /\ pc \in {"pass1", "pass2"}
    /\ i > 2
    /\ \/ /\ in_key_findings
          /\ Trimmed(lines[i - 1]) = KEY_FINDINGS_LABEL
          /\ Trimmed(lines[i - 2]) = ACTIONABLE_LABEL
       \/ /\ in_actionable_recommendations
          /\ Trimmed(lines[i - 1]) = ACTIONABLE_LABEL
          /\ Trimmed(lines[i - 2]) = KEY_FINDINGS_LABEL

=============================================================================
